---- MODULE Spec2Model ----
(***************************************************************************)
(* nwd1-webtransport: send_frame / recv_frame over an ordered byte stream. *)
(*                                                                         *)
(* One stream direction is modelled: a writer end (send_frame, or a        *)
(* foreign peer writing raw bytes), a bounded in-memory pipe, and a reader *)
(* end on which the caller issues successive recv_frame calls.  Each       *)
(* suspension point of the async functions (a poll of write_all or of      *)
(* read_exact) is one action; the synchronous code between two suspension  *)
(* points belongs to the action that precedes it.                          *)
(*                                                                         *)
(* Bytes are naturals 0..255.  Lengths are plain naturals: the code widens *)
(* the u32 LEN to usize and never computes past 8 + len, so no arithmetic  *)
(* of the code wraps; declared lengths are drawn below 2^31.               *)
(***************************************************************************)
EXTENDS Naturals, Integers, Sequences, FiniteSets, TLC

VARIABLES
    frames,     \* the frames the sending application hands to send_frame, in order
    raw,        \* bytes a foreign peer (not using send_frame) still has to write
    sidx,       \* number of send_frame calls started
    spc,        \* send_frame: "Idle" | "Writing" | "Ok" | "Err"
    data,       \* send_frame: the part of encode(frame) write_all has not yet written
    wstart,     \* write cursor when the current send_frame call started
    wlog,       \* every byte the stream's write path has accepted, in order
    pipe,       \* bytes accepted by the write path and not yet read
    wclosed,    \* the writer end was shut down (clean close)
    broken,     \* the transport failed (reads and writes report an I/O error)
    calls,      \* number of recv_frame calls started
    rpc,        \* recv_frame: "Idle" | "Header" | "Body" | "Closed" | "Done" | "Failed"
                \* | "Cancelled" (the future was dropped at a suspension point)
    soft_cap,   \* recv_frame: the soft_cap argument of the current call
    header,     \* recv_frame: the filled part of `header`
    len,        \* recv_frame: `len`, once parsed (0 before)
    bodyAlloc,  \* recv_frame: size of the `body` vector, NoAlloc before it is allocated
    body,       \* recv_frame: the filled part of `body`
    rio,        \* how the last read poll of the current call ended: "none" | "data" | "eof" | "error"
    rcursor,    \* read cursor: bytes consumed from the stream so far
    rstart,     \* read cursor when the current recv_frame call started
    result,     \* value returned by the current recv_frame call (Pending while it runs)
    rlog        \* the values returned by the completed recv_frame calls, in order

vars == <<frames, raw, sidx, spc, data, wstart, wlog, pipe, wclosed, broken, calls,
          rpc, soft_cap, header, len, bodyAlloc, body, rio, rcursor, rstart, result, rlog>>

svars == <<sidx, spc, data, wstart>>
rvars == <<calls, rpc, soft_cap, header, len, bodyAlloc, body, rio, rcursor, rstart, result, rlog>>

----------------------------------------------------------------------------
(* Bounds of the model *)

PipeCap == 3        \* capacity of the in-memory duplex pipe
MaxFrames == 2      \* frames sent on one stream
MaxCalls == 3       \* recv_frame calls on one stream
MaxTail == 2        \* bytes a foreign peer writes after a raw header

----------------------------------------------------------------------------
(* Constants of the program *)

MAX_FRAME_LEN_HARD == 8 * 1024 * 1024
DEFAULT_FRAME_LEN_SOFT == 256 * 1024
HEADER_LEN == 8

\* nwd1::MAGIC, the 4-byte protocol tag ("NWD1")
MAGIC == <<78, 87, 68, 49>>

Min(a, b) == IF a < b THEN a ELSE b
Take(s, n) == SubSeq(s, 1, n)
Drop(s, n) == SubSeq(s, n + 1, Len(s))

----------------------------------------------------------------------------
(* The external codec (crate nwd1): MAGIC | LEN | ID | KIND | VER | PAYLOAD *)

ID_LEN == 8
\* the fixed part of a body: id (8 bytes), kind (1 byte), ver (1 byte)
BODY_FIXED == ID_LEN + 2

\* u32::to_be_bytes
to_be_bytes(n) ==
    <<(n \div 16777216) % 256, (n \div 65536) % 256, (n \div 256) % 256, n % 256>>

\* u32::from_be_bytes([b1, b2, b3, b4])
from_be_bytes(b) == b[1] * 16777216 + b[2] * 65536 + b[3] * 256 + b[4]

NoFrame == [id |-> <<>>, kind |-> 0, ver |-> 0, payload |-> <<>>]

encode(f) ==
    MAGIC \o to_be_bytes(BODY_FIXED + Len(f.payload))
          \o f.id \o <<f.kind>> \o <<f.ver>> \o f.payload

\* decode(buf): [ok |-> TRUE, frame |-> f] or [ok |-> FALSE, frame |-> NoFrame]
decode(buf) ==
    IF /\ Len(buf) >= HEADER_LEN + BODY_FIXED
       /\ Take(buf, 4) = MAGIC
       /\ from_be_bytes(SubSeq(buf, 5, 8)) = Len(buf) - HEADER_LEN
    THEN [ok |-> TRUE,
          frame |-> [id |-> SubSeq(buf, 9, 8 + ID_LEN),
                     kind |-> buf[9 + ID_LEN],
                     ver |-> buf[10 + ID_LEN],
                     payload |-> Drop(buf, HEADER_LEN + BODY_FIXED)]]
    ELSE [ok |-> FALSE, frame |-> NoFrame]

----------------------------------------------------------------------------
(* Values returned by recv_frame: io::Result<Option<Frame>> *)

Pending == [tag |-> "Pending", kind |-> "", msg |-> "", frame |-> NoFrame]
OkNone == [tag |-> "None", kind |-> "", msg |-> "", frame |-> NoFrame]
OkSome(f) == [tag |-> "Some", kind |-> "", msg |-> "", frame |-> f]
Err(k, m) == [tag |-> "Err", kind |-> k, msg |-> m, frame |-> NoFrame]

\* the errors the transport's read_exact reports
EofError == Err("UnexpectedEof", "early eof")
ResetError == Err("ConnectionReset", "transport")

BadMagic == Err("InvalidData", "nwd1 bad magic")

\* an oversize error built with the message of the magic error
FrameTooLarge_AsBadMagic == Err("InvalidData", "nwd1 bad magic")

FrameTooLarge == Err("InvalidData", "nwd1 frame too large")
DecodeFailure == Err("InvalidData", "nwd1 decode error")

NoAlloc == 0 - 1

----------------------------------------------------------------------------
(* The inputs: what the writer end sends, and the soft caps the caller passes *)

Frames ==
    { [id |-> <<0, 1, 0, 7, 0, 0, 0, 42>>, kind |-> 1, ver |-> 1,
       payload |-> <<104, 101, 108, 108, 111>>],
      [id |-> <<0, 2, 0, 1, 0, 0, 0, 9>>, kind |-> 2, ver |-> 3, payload |-> <<>>] }

FramePlans == UNION { [1..n -> Frames] : n \in 1..MaxFrames }

SmallCap == BODY_FIXED + 1

SoftCaps == {0, SmallCap, DEFAULT_FRAME_LEN_SOFT, 2 * MAX_FRAME_LEN_HARD}

\* declared lengths of raw headers with the right magic
Lens ==
    {0, 1, MaxTail, MaxTail + 1, SmallCap, SmallCap + 1,
     DEFAULT_FRAME_LEN_SOFT, DEFAULT_FRAME_LEN_SOFT + 1,
     MAX_FRAME_LEN_HARD, MAX_FRAME_LEN_HARD + 1,
     2 * MAX_FRAME_LEN_HARD, 2 * MAX_FRAME_LEN_HARD + 1, 2147483647}

\* MAGIC with the byte at position p changed
Corrupt(p) == [MAGIC EXCEPT ![p] = (MAGIC[p] + 1) % 256]

RawHeaders ==
    { MAGIC \o to_be_bytes(l) : l \in Lens }
    \cup { Corrupt(p) \o to_be_bytes(l) : p \in 1..4, l \in {MaxTail, MAX_FRAME_LEN_HARD + 1} }

Filler(n) == [i \in 1..n |-> i]

\* a raw stream: a header cut short, or a whole header and up to MaxTail more bytes
RawStreams ==
    { Take(h, k) : h \in RawHeaders, k \in 0..(HEADER_LEN - 1) }
    \cup { h \o Filler(n) : h \in RawHeaders, n \in 0..MaxTail }

----------------------------------------------------------------------------
(* recv_frame: the code between its suspension points *)

\* a comparison that stops one byte short
MagicOk_ThreeBytes(h) == Take(h, 3) = Take(MAGIC, 3)

\* `&header[..4] != MAGIC` is the negation of this
MagicOk(h) == Take(h, 4) = MAGIC

\* a cap check that rejects a len equal to the cap
CapExceeded_OffByOne(l, cap) == l >= cap \/ l >= MAX_FRAME_LEN_HARD

\* the cap check without its soft half, and without its hard half
CapExceeded_HardOnly(l, cap) == l > MAX_FRAME_LEN_HARD
CapExceeded_SoftOnly(l, cap) == l > cap

\* `len > soft_cap || len > MAX_FRAME_LEN_HARD`
CapExceeded(l, cap) == l > cap \/ l > MAX_FRAME_LEN_HARD

\* a body buffer one byte too long
BodySize_OneMore(l) == l + 1

\* `vec![0u8; len]`: the size of the body buffer
BodySize(l) == l

\* a header read that takes every error for the end of the stream
MapHeaderErr_AllNone(e) == OkNone

\* a header read that returns every error as it is
MapHeaderErr_Propagate(e) == e

\* the Err arm of the header read: UnexpectedEof becomes Ok(None)
MapHeaderErr(e) == IF e.kind = "UnexpectedEof" THEN OkNone ELSE e

\* a body read that treats end of stream as the header read does
MapBodyErr_EofIsNone(e) == IF e.kind = "UnexpectedEof" THEN OkNone ELSE e

\* `reader.read_exact(&mut body).await?`: the error is returned as it is
MapBodyErr(e) == e

\* a buffer composed without the header
Compose_BodyOnly(h, b) == b

\* `buf.extend_from_slice(&header); buf.extend_from_slice(&body)`
Compose(h, b) == h \o b

\* a decode error taken for the end of the stream
DecodeResult_ErrIsNone(buf) ==
    IF decode(buf).ok THEN OkSome(decode(buf).frame) ELSE OkNone

\* `match decode(&buf.freeze())`
DecodeResult(buf) ==
    IF decode(buf).ok THEN OkSome(decode(buf).frame) ELSE DecodeFailure

\* a receiver that goes back to read another header after an error
RpcOf_RetryOnErr(res) ==
    CASE res.tag = "None" -> "Closed"
      [] res.tag = "Some" -> "Done"
      [] res.tag = "Err" -> "Header"
      [] OTHER -> "Body"

\* the state recv_frame ends in when it returns res
RpcOf(res) ==
    CASE res.tag = "None" -> "Closed"
      [] res.tag = "Some" -> "Done"
      [] res.tag = "Err" -> "Failed"
      [] OTHER -> "Body"

\* the cap check made before the magic check
AfterHeader_CapFirst(h, cap) ==
    LET l == from_be_bytes(SubSeq(h, 5, 8)) IN
    IF CapExceeded(l, cap)
    THEN [len |-> l, alloc |-> NoAlloc, result |-> FrameTooLarge]
    ELSE IF ~MagicOk(h)
         THEN [len |-> 0, alloc |-> NoAlloc, result |-> BadMagic]
         ELSE IF BodySize(l) = 0
              THEN [len |-> l, alloc |-> BodySize(l),
                    result |-> DecodeResult(Compose(h, <<>>))]
              ELSE [len |-> l, alloc |-> BodySize(l), result |-> Pending]

\* the body allocated before the cap check instead of after it
AfterHeader_AllocFirst(h, cap) ==
    IF ~MagicOk(h)
    THEN [len |-> 0, alloc |-> NoAlloc, result |-> BadMagic]
    ELSE LET l == from_be_bytes(SubSeq(h, 5, 8)) IN
         IF CapExceeded(l, cap)
         THEN [len |-> l, alloc |-> BodySize(l), result |-> FrameTooLarge]
         ELSE IF BodySize(l) = 0
              THEN [len |-> l, alloc |-> BodySize(l),
                    result |-> DecodeResult(Compose(h, <<>>))]
              ELSE [len |-> l, alloc |-> BodySize(l), result |-> Pending]

\* What follows a complete header h, up to the next suspension point or the
\* return: the magic check, the LEN parse, the cap check, the allocation of
\* the body and, for an empty body (read_exact of 0 bytes is ready at once),
\* the decode.
AfterHeader(h, cap) ==
    IF ~MagicOk(h)
    THEN [len |-> 0, alloc |-> NoAlloc, result |-> BadMagic]
    ELSE LET l == from_be_bytes(SubSeq(h, 5, 8)) IN
         IF CapExceeded(l, cap)
         THEN [len |-> l, alloc |-> NoAlloc, result |-> FrameTooLarge]
         ELSE IF BodySize(l) = 0
              THEN [len |-> l, alloc |-> BodySize(l),
                    result |-> DecodeResult(Compose(h, <<>>))]
              ELSE [len |-> l, alloc |-> BodySize(l), result |-> Pending]

Return(res) ==
    /\ result' = res
    /\ rpc' = RpcOf(res)
    /\ rlog' = Append(rlog, res)

----------------------------------------------------------------------------
(* The state after construction *)

Init ==
    /\ \/ frames \in FramePlans /\ raw = <<>>
       \/ frames = <<>> /\ raw \in RawStreams
    /\ sidx = 0 /\ spc = "Idle" /\ data = <<>> /\ wstart = 0 /\ wlog = <<>>
    /\ pipe = <<>> /\ wclosed = FALSE /\ broken = FALSE
    /\ calls = 0 /\ rpc = "Idle" /\ soft_cap = 0
    /\ header = <<>> /\ len = 0 /\ bodyAlloc = NoAlloc /\ body = <<>> /\ rio = "none"
    /\ rcursor = 0 /\ rstart = 0 /\ result = Pending /\ rlog = <<>>

----------------------------------------------------------------------------
(* The writer end *)

\* send_frame is called with the next frame: `let data = encode(frame)`
SendCall ==
    /\ spc \in {"Idle", "Ok"} /\ sidx < Len(frames) /\ ~wclosed
    /\ sidx' = sidx + 1
    /\ data' = encode(frames[sidx + 1])
    /\ wstart' = Len(wlog)
    /\ spc' = "Writing"
    /\ UNCHANGED <<frames, raw, wlog, pipe, wclosed, broken, rvars>>

\* `write` in place of `write_all`: done after the first partial write
WriteAllDone_FirstWrite(rest) == TRUE

\* write_all is done when nothing is left to write
WriteAllDone(rest) == rest = <<>>

\* one poll of `writer.write_all(&data)`: the pipe accepts n bytes
WritePoll(n) ==
    /\ spc = "Writing" /\ ~broken
    /\ n \in 1..Min(Len(data), PipeCap - Len(pipe))
    /\ pipe' = pipe \o Take(data, n)
    /\ wlog' = wlog \o Take(data, n)
    /\ data' = Drop(data, n)
    /\ spc' = IF WriteAllDone(Drop(data, n)) THEN "Ok" ELSE "Writing"
    /\ UNCHANGED <<frames, raw, sidx, wstart, wclosed, broken, rvars>>

\* a send that ignores the write error and reports success
WriteErr_Swallow ==
    /\ spc = "Writing" /\ broken
    /\ spc' = "Ok"
    /\ UNCHANGED <<frames, raw, sidx, data, wstart, wlog, pipe, wclosed, broken, rvars>>

\* one poll of write_all on a failed transport: `?` returns the error
WriteErr ==
    /\ spc = "Writing" /\ broken
    /\ spc' = "Err"
    /\ UNCHANGED <<frames, raw, sidx, data, wstart, wlog, pipe, wclosed, broken, rvars>>

\* a foreign peer writes n of its raw bytes
PeerWrite(n) ==
    /\ raw # <<>> /\ ~broken /\ ~wclosed
    /\ n \in 1..Min(Len(raw), PipeCap - Len(pipe))
    /\ pipe' = pipe \o Take(raw, n)
    /\ wlog' = wlog \o Take(raw, n)
    /\ raw' = Drop(raw, n)
    /\ UNCHANGED <<frames, svars, wclosed, broken, rvars>>

\* the writer end is shut down once everything was written
Shutdown ==
    /\ ~wclosed /\ ~broken
    /\ raw = <<>> /\ sidx = Len(frames) /\ spc \in {"Idle", "Ok"}
    /\ wclosed' = TRUE
    /\ UNCHANGED <<frames, raw, svars, wlog, pipe, broken, rvars>>

\* the transport fails
Reset ==
    /\ ~broken
    /\ broken' = TRUE
    /\ UNCHANGED <<frames, raw, svars, wlog, pipe, wclosed, rvars>>

----------------------------------------------------------------------------
(* recv_frame *)

\* recv_frame(reader, cap) is called: `let mut header = [0u8; HEADER_LEN]`
RecvCall(cap) ==
    /\ rpc \in {"Idle", "Closed", "Done", "Failed", "Cancelled"} /\ calls < MaxCalls
    /\ calls' = calls + 1
    /\ soft_cap' = cap
    /\ rpc' = "Header"
    /\ header' = <<>> /\ len' = 0 /\ bodyAlloc' = NoAlloc /\ body' = <<>>
    /\ rio' = "none" /\ rstart' = rcursor /\ result' = Pending
    /\ UNCHANGED <<frames, raw, svars, wlog, pipe, wclosed, broken, rcursor, rlog>>

\* one poll of `reader.read_exact(&mut header)` that gets n bytes
HeaderRead(n) ==
    /\ rpc = "Header"
    /\ n \in 1..Min(HEADER_LEN - Len(header), Len(pipe))
    /\ LET h == header \o Take(pipe, n) IN
       /\ header' = h
       /\ pipe' = Drop(pipe, n)
       /\ rcursor' = rcursor + n
       /\ rio' = "data"
       /\ IF Len(h) < HEADER_LEN
          THEN UNCHANGED <<rpc, len, bodyAlloc, result, rlog>>
          ELSE LET o == AfterHeader(h, soft_cap) IN
               /\ len' = o.len
               /\ bodyAlloc' = o.alloc
               /\ IF o.result = Pending
                  THEN rpc' = "Body" /\ UNCHANGED <<result, rlog>>
                  ELSE Return(o.result)
    /\ UNCHANGED <<frames, raw, svars, wlog, wclosed, broken, calls, soft_cap, body, rstart>>

\* one poll of the header read that finds the stream closed
HeaderEof ==
    /\ rpc = "Header" /\ pipe = <<>> /\ wclosed
    /\ rio' = "eof"
    /\ Return(MapHeaderErr(EofError))
    /\ UNCHANGED <<frames, raw, svars, wlog, pipe, wclosed, broken, calls, soft_cap,
                   header, len, bodyAlloc, body, rcursor, rstart>>

\* one poll of the header read that fails with a transport error
HeaderErr ==
    /\ rpc = "Header" /\ broken
    /\ rio' = "error"
    /\ Return(MapHeaderErr(ResetError))
    /\ UNCHANGED <<frames, raw, svars, wlog, pipe, wclosed, broken, calls, soft_cap,
                   header, len, bodyAlloc, body, rcursor, rstart>>

\* `read` in place of `read_exact`: the body is whatever the first read gets
BodyRead_SingleRead(n) ==
    /\ rpc = "Body"
    /\ n \in 1..Min(bodyAlloc - Len(body), Len(pipe))
    /\ body' = body \o Take(pipe, n)
    /\ pipe' = Drop(pipe, n)
    /\ rcursor' = rcursor + n
    /\ rio' = "data"
    /\ Return(DecodeResult(Compose(header, body \o Take(pipe, n))))
    /\ UNCHANGED <<frames, raw, svars, wlog, wclosed, broken, calls, soft_cap,
                   header, len, bodyAlloc, rstart>>

\* one poll of `reader.read_exact(&mut body)` that gets n bytes
BodyRead(n) ==
    /\ rpc = "Body"
    /\ n \in 1..Min(bodyAlloc - Len(body), Len(pipe))
    /\ LET b == body \o Take(pipe, n) IN
       /\ body' = b
       /\ pipe' = Drop(pipe, n)
       /\ rcursor' = rcursor + n
       /\ rio' = "data"
       /\ IF Len(b) < bodyAlloc
          THEN UNCHANGED <<rpc, result, rlog>>
          ELSE Return(DecodeResult(Compose(header, b)))
    /\ UNCHANGED <<frames, raw, svars, wlog, wclosed, broken, calls, soft_cap,
                   header, len, bodyAlloc, rstart>>

\* one poll of the body read that finds the stream closed
BodyEof ==
    /\ rpc = "Body" /\ pipe = <<>> /\ wclosed
    /\ rio' = "eof"
    /\ Return(MapBodyErr(EofError))
    /\ UNCHANGED <<frames, raw, svars, wlog, pipe, wclosed, broken, calls, soft_cap,
                   header, len, bodyAlloc, body, rcursor, rstart>>

\* one poll of the body read that fails with a transport error
BodyErr ==
    /\ rpc = "Body" /\ broken
    /\ rio' = "error"
    /\ Return(MapBodyErr(ResetError))
    /\ UNCHANGED <<frames, raw, svars, wlog, pipe, wclosed, broken, calls, soft_cap,
                   header, len, bodyAlloc, body, rcursor, rstart>>

\* a cancelled call that hands the bytes it consumed back to the stream
Cancel_PushBack ==
    /\ rpc \in {"Header", "Body"}
    /\ rpc' = "Cancelled"
    /\ pipe' = SubSeq(wlog, rstart + 1, rcursor) \o pipe
    /\ rcursor' = rstart
    /\ header' = <<>> /\ body' = <<>> /\ bodyAlloc' = NoAlloc /\ len' = 0
    /\ UNCHANGED <<frames, raw, svars, wlog, wclosed, broken, calls, soft_cap,
                   rio, rstart, result, rlog>>

\* the caller drops the recv_frame future while it is suspended in the header
\* read or in the body read: `header` and `body` are dropped with it, the
\* reader keeps its position
Cancel ==
    /\ rpc \in {"Header", "Body"}
    /\ rpc' = "Cancelled"
    /\ header' = <<>> /\ body' = <<>> /\ bodyAlloc' = NoAlloc /\ len' = 0
    /\ UNCHANGED <<frames, raw, svars, wlog, pipe, wclosed, broken, calls, soft_cap,
                   rio, rcursor, rstart, result, rlog>>

----------------------------------------------------------------------------

Next ==
    \/ SendCall
    \/ \E n \in 1..PipeCap : WritePoll(n)
    \/ WriteErr
    \/ \E n \in 1..PipeCap : PeerWrite(n)
    \/ Shutdown
    \/ Reset
    \/ \E cap \in SoftCaps : RecvCall(cap)
    \/ \E n \in 1..HEADER_LEN : HeaderRead(n)
    \/ HeaderEof
    \/ HeaderErr
    \/ \E n \in 1..PipeCap : BodyRead(n)
    \/ BodyEof
    \/ BodyErr

Spec == Init /\ [][Next]_vars

\* The same stream with a caller that may drop a recv_frame future before it
\* returns; the transport does not fail.
InitCancel == Init

NextCancel ==
    \/ SendCall
    \/ \E n \in 1..PipeCap : WritePoll(n)
    \/ \E n \in 1..PipeCap : PeerWrite(n)
    \/ Shutdown
    \/ \E cap \in SoftCaps : RecvCall(cap)
    \/ \E n \in 1..HEADER_LEN : HeaderRead(n)
    \/ HeaderEof
    \/ \E n \in 1..PipeCap : BodyRead(n)
    \/ BodyEof
    \/ Cancel

SpecCancel == InitCancel /\ [][NextCancel]_vars

\* A fair transport and a fair scheduler: the stream delivers the bytes that
\* are waited for or closes, and does not fail; a poll that can make progress
\* is eventually made (the runtime wakes the suspended future when the stream
\* has bytes or is closed), and the writer end eventually writes what it has
\* and shuts down.
ReaderStep ==
    \/ \E n \in 1..HEADER_LEN : HeaderRead(n)
    \/ HeaderEof
    \/ \E n \in 1..PipeCap : BodyRead(n)
    \/ BodyEof

WriterStep ==
    \/ SendCall
    \/ \E n \in 1..PipeCap : WritePoll(n)
    \/ \E n \in 1..PipeCap : PeerWrite(n)
    \/ Shutdown

NextFair ==
    \/ SendCall
    \/ \E n \in 1..PipeCap : WritePoll(n)
    \/ \E n \in 1..PipeCap : PeerWrite(n)
    \/ Shutdown
    \/ \E cap \in SoftCaps : RecvCall(cap)
    \/ \E n \in 1..HEADER_LEN : HeaderRead(n)
    \/ HeaderEof
    \/ \E n \in 1..PipeCap : BodyRead(n)
    \/ BodyEof

FairSpec ==
    Init /\ [][NextFair]_vars /\ WF_vars(ReaderStep) /\ WF_vars(WriterStep)

----------------------------------------------------------------------------
(* Properties *)

Terminal == rpc \in {"Closed", "Done", "Failed"}
TransportKinds == {"UnexpectedEof", "ConnectionReset"}
TransportFailure(res) == res.tag = "Err" /\ res.kind \in TransportKinds

\* bytes the current recv_frame call has consumed
Consumed == rcursor - rstart

\* LEN as the header on the wire declares it
DeclaredLen(h) == from_be_bytes(SubSeq(h, 5, 8))

\* the wire bytes of the first k frames
RECURSIVE WireOf(_)
WireOf(k) == IF k = 0 THEN <<>> ELSE WireOf(k - 1) \o encode(frames[k])

\* the effective cap of the current call
EffectiveCap == Min(soft_cap, MAX_FRAME_LEN_HARD)

\* the terminal state that goes with the returned value
RpcOfResult ==
    CASE result.tag = "None" -> "Closed"
      [] result.tag = "Some" -> "Done"
      [] result.tag = "Err" -> "Failed"
      [] OTHER -> "none"

\* C1: a recv_frame call whose header read got 1..7 bytes and then found the
\* stream closed ends in Failed with a transport failure, never in the
\* clean-close signal Ok(None).
C1_TruncatedHeaderFails ==
    (Terminal /\ rio = "eof" /\ Len(header) \in 1..(HEADER_LEN - 1))
        => (rpc = "Failed" /\ TransportFailure(result) /\ result # OkNone)

\* C2: a recv_frame call that finds the stream cleanly closed before it got
\* any header byte returns the clean-close signal Ok(None), not a failure.
C2_CleanClose ==
    (Terminal /\ rio = "eof" /\ header = <<>>)
        => (rpc = "Closed" /\ result = OkNone)

\* the stream is closed at a frame boundary, after a frame was received
C2_Witness ==
    /\ rpc = "Closed" /\ rio = "eof" /\ header = <<>> /\ result = OkNone
    /\ calls = 2 /\ rlog[1].tag = "Some"

\* C3: with the right magic, a declared len above a soft cap that is below the
\* hard ceiling fails with FrameTooLarge, and a declared len above the 8 MiB
\* hard ceiling fails with FrameTooLarge whatever the soft cap is; no body
\* read and no frame ever follows a len above 8 MiB.
C3_CapEnforced ==
    (rpc \notin {"Idle", "Header"} /\ Len(header) = HEADER_LEN /\ Take(header, 4) = MAGIC)
        => /\ (soft_cap < MAX_FRAME_LEN_HARD /\ DeclaredLen(header) > soft_cap)
                => (rpc = "Failed" /\ result = FrameTooLarge)
           /\ DeclaredLen(header) > MAX_FRAME_LEN_HARD
                => (rpc = "Failed" /\ result = FrameTooLarge)
           /\ (rpc \in {"Body", "Done"} \/ result = DecodeFailure)
                => DeclaredLen(header) <= MAX_FRAME_LEN_HARD

\* a soft cap above the hard ceiling, and a len between the two
C3_Witness ==
    /\ result = FrameTooLarge
    /\ soft_cap > MAX_FRAME_LEN_HARD
    /\ DeclaredLen(header) > MAX_FRAME_LEN_HARD /\ DeclaredLen(header) <= soft_cap

\* C4: when recv_frame fails with FrameTooLarge it has consumed exactly the 8
\* header bytes, has allocated no body buffer and has read no body byte,
\* whatever follows the header on the stream.
C4_TooLargeSkipsBody ==
    result = FrameTooLarge
        => (Consumed = HEADER_LEN /\ bodyAlloc = NoAlloc /\ body = <<>>)

\* bytes that follow the oversize header are left in the stream
C4_Witness ==
    /\ result = FrameTooLarge /\ rpc = "Failed"
    /\ pipe # <<>> /\ Len(wlog) > rstart + HEADER_LEN

\* C5: the body buffer, once allocated, has exactly the declared len as its
\* size, never more than the 8 MiB hard ceiling, and never holds more bytes
\* than its size, for every soft cap.
C5_BodyBufferBounded ==
    bodyAlloc # NoAlloc
        => /\ Len(header) = HEADER_LEN
           /\ bodyAlloc = DeclaredLen(header)
           /\ bodyAlloc <= MAX_FRAME_LEN_HARD
           /\ Len(body) <= bodyAlloc

\* a buffer of exactly the hard ceiling under a soft cap above it
C5_Witness ==
    /\ bodyAlloc = MAX_FRAME_LEN_HARD
    /\ soft_cap > MAX_FRAME_LEN_HARD

\* C6: a complete header whose first 4 bytes differ from MAGIC anywhere makes
\* recv_frame fail with BadMagic after consuming exactly 8 bytes, the body
\* neither allocated nor read.
C6_BadMagic ==
    (Len(header) = HEADER_LEN /\ Take(header, 4) # MAGIC)
        => /\ rpc = "Failed" /\ result = BadMagic
           /\ Consumed = HEADER_LEN
           /\ bodyAlloc = NoAlloc /\ body = <<>>

\* the mismatch is in the last magic byte only, and bytes follow the header
C6_Witness ==
    /\ Len(header) = HEADER_LEN
    /\ Take(header, 3) = Take(MAGIC, 3) /\ header[4] # MAGIC[4]
    /\ result = BadMagic /\ pipe # <<>>

\* C7: after a complete header with the right magic and a len within the
\* caps, a stream that closes or fails before len body bytes were delivered
\* makes recv_frame end in Failed with that transport failure: neither the
\* clean-close signal nor a frame.
C7_ShortBodyFails ==
    (/\ Terminal /\ Len(header) = HEADER_LEN /\ Take(header, 4) = MAGIC
     /\ DeclaredLen(header) <= EffectiveCap
     /\ Len(body) < DeclaredLen(header))
        => /\ rpc = "Failed" /\ TransportFailure(result)
           /\ rio = "eof" => result = EofError
           /\ rio = "error" => result = ResetError

\* the stream closed after some, not all, of the body
C7_Witness ==
    /\ rpc = "Failed" /\ rio = "eof" /\ result = EofError
    /\ Len(header) = HEADER_LEN /\ body # <<>> /\ Len(body) < len

\* C8: a frame whose encoded body length is within min(soft_cap, 8 MiB),
\* written through the bounded pipe while recv_frame runs on the other end,
\* is returned by recv_frame with the same id, kind, ver and payload however
\* the partial writes and reads interleave; until it returns, the reader or
\* the writer can always take a step.
C8_RoundTrip ==
    (/\ frames # <<>> /\ calls = 1 /\ ~broken
     /\ Len(encode(frames[1])) - HEADER_LEN <= EffectiveCap)
        => /\ Terminal => (rpc = "Done" /\ result = OkSome(frames[1]))
           /\ rpc \in {"Header", "Body"}
                => (pipe # <<>> \/ spc = "Writing" \/ sidx = 0)

\* the frame of the test, received under the default soft cap while the
\* writer end is still open
C8_Witness ==
    /\ calls = 1 /\ rpc = "Done" /\ soft_cap = DEFAULT_FRAME_LEN_SOFT /\ ~wclosed
    /\ result.frame.id = <<0, 1, 0, 7, 0, 0, 0, 42>>
    /\ result.frame.kind = 1 /\ result.frame.ver = 1
    /\ result.frame.payload = <<104, 101, 108, 108, 111>>

\* the earlier calls returned the first k frames, in order
ReceivedInOrder(k) ==
    /\ Len(rlog) >= k /\ Len(frames) >= k
    /\ \A i \in 1..k : rlog[i] = OkSome(frames[i])

\* every call made so far ran to its return, or is still running: none was cancelled
NoCancel ==
    /\ rpc # "Cancelled"
    /\ calls = Len(rlog) + (IF rpc \in {"Header", "Body"} THEN 1 ELSE 0)

\* a call that returns a frame or a decode failure has consumed 8 + len bytes
C9_ExactConsumption ==
    (rpc = "Done" \/ result = DecodeFailure)
        => (Consumed = HEADER_LEN + len /\ len = DeclaredLen(header))

\* C9 as stated: frames F1..Fn sent in order and followed by a clean close
\* are returned by n+1 successive calls as F1..Fn and then Ok(None).
C9_AsStated ==
    /\ C9_ExactConsumption
    /\ (frames # <<>> /\ ~broken /\ NoCancel)
        => \A i \in 1..Len(rlog) :
              /\ i <= Len(frames) => rlog[i] = OkSome(frames[i])
              /\ i = Len(frames) + 1 => rlog[i] = OkNone

\* C9, amended: the same, for frames each received by a call whose effective
\* cap min(soft_cap, 8 MiB) is at least the frame's len.  Call k, made after
\* the calls before it returned F1..F(k-1), starts at the header of Fk,
\* returns Fk and leaves the cursor at the header of F(k+1); call n+1
\* returns Ok(None).
C9_OrderedWithinCaps ==
    /\ C9_ExactConsumption
    /\ (frames # <<>> /\ ~broken /\ NoCancel /\ calls >= 1 /\ ReceivedInOrder(calls - 1))
        => /\ rstart = Len(WireOf(calls - 1))
           /\ (/\ Terminal /\ calls <= Len(frames)
               /\ Len(encode(frames[calls])) - HEADER_LEN <= EffectiveCap)
                => /\ result = OkSome(frames[calls])
                   /\ rcursor = Len(WireOf(calls))
           /\ (Terminal /\ calls = Len(frames) + 1) => result = OkNone

\* two different frames received in order, then the clean close
C9_Witness ==
    /\ Len(frames) = 2 /\ frames[1] # frames[2]
    /\ calls = 3 /\ rpc = "Closed" /\ ~broken
    /\ rlog = <<OkSome(frames[1]), OkSome(frames[2]), OkNone>>

\* C10: send_frame returns success only when every byte of encode(frame) was
\* accepted by the write path, in order and with nothing else written: the
\* write cursor has advanced by exactly the length of the wire bytes, 8 + len.
C10_SendWritesAll ==
    /\ spc = "Ok"
        => /\ data = <<>>
           /\ SubSeq(wlog, wstart + 1, Len(wlog)) = encode(frames[sidx])
           /\ Len(wlog) - wstart
                = HEADER_LEN + DeclaredLen(encode(frames[sidx]))
    /\ spc = "Writing"
        => SubSeq(wlog, wstart + 1, Len(wlog)) \o data = encode(frames[sidx])

\* the second send succeeded before the peer has read all of it
C10_Witness ==
    /\ spc = "Ok" /\ sidx = 2 /\ pipe # <<>>
    /\ wstart = Len(encode(frames[1]))

\* C11: once a write poll of send_frame has met the transport's failure,
\* whatever prefix of the wire bytes was accepted before, send_frame returns
\* the failure: it accepts no further byte, never retries and never reports
\* success, and after it returned nothing more is written for that call.
C11_SendFailureIsFinal ==
    [][/\ (spc = "Writing" /\ broken)
            => (spc' \in {"Writing", "Err"} /\ wlog' = wlog /\ data' = data)
       /\ spc = "Err"
            => (spc' = "Err" /\ wlog' = wlog /\ data' = data /\ sidx' = sidx)]_vars

\* the failure met the send after a proper prefix of the wire bytes
C11_Witness ==
    /\ spc = "Err" /\ broken
    /\ Len(wlog) > wstart /\ data # <<>>

\* C12: with the right magic, len within the caps and all len body bytes
\* read, a buffer of 8 + len bytes the codec rejects makes recv_frame end in
\* Failed with DecodeFailure (no frame, no clean close); and a result that
\* comes from the codec, a frame or DecodeFailure, is only ever returned
\* after the full body was read.
C12_DecodeFailure ==
    /\ (/\ Terminal /\ Len(header) = HEADER_LEN /\ Take(header, 4) = MAGIC
        /\ DeclaredLen(header) <= EffectiveCap
        /\ Len(body) = DeclaredLen(header)
        /\ ~decode(header \o body).ok)
            => (rpc = "Failed" /\ result.tag = "Err" /\ result.kind = "InvalidData"
                /\ result.msg = "nwd1 decode error")
    /\ (result.tag = "Some" \/ result.msg = "nwd1 decode error")
            => /\ Len(header) = HEADER_LEN
               /\ Len(body) = DeclaredLen(header)
               /\ Consumed = HEADER_LEN + DeclaredLen(header)

\* a body that was read in full and that the codec rejects
C12_Witness ==
    /\ rpc = "Failed" /\ result.msg = "nwd1 decode error"
    /\ body # <<>> /\ Len(body) = DeclaredLen(header)

InProgress == rpc \in {"Header", "Body"}

\* C13: on a fair transport every recv_frame call reaches one of the
\* terminal states Closed, Done, Failed, whose result matches it; it never
\* goes from the body read back to the header read, and once it has returned
\* its state and result stay until the caller makes the next call.
C13_Terminates ==
    /\ InProgress ~> Terminal
    /\ [](Terminal => rpc = RpcOfResult)
    /\ [](InProgress => result = Pending)
    /\ [][/\ rpc = "Body" => rpc' \in {"Body", "Done", "Failed"}
          /\ rpc = "Header" => rpc' \in {"Header", "Body", "Closed", "Done", "Failed"}
          /\ Terminal => \/ (rpc' = rpc /\ result' = result /\ calls' = calls)
                         \/ (rpc' = "Header" /\ calls' = calls + 1)]_vars

\* a call that went through both read phases and returned a frame
C13_Witness ==
    /\ rpc = "Done" /\ result.tag = "Some"
    /\ Len(header) = HEADER_LEN /\ body # <<>>

\* why the current call failed, read off the stream and the call's state
Cause ==
    IF rio \in {"eof", "error"} THEN "TransportFailure"
    ELSE IF Len(header) = HEADER_LEN /\ Take(header, 4) # MAGIC THEN "BadMagic"
    ELSE IF Len(header) = HEADER_LEN /\ DeclaredLen(header) > EffectiveCap
         THEN "FrameTooLarge"
    ELSE "DecodeFailure"

C15_HeaderErrorUnchanged ==
    (Terminal /\ rio = "error" /\ Len(header) < HEADER_LEN)
        => /\ rpc = "Failed" /\ result = ResetError
           /\ result # OkNone /\ result.kind # "InvalidData"

\* the error met the header read after some header bytes
C15_Witness ==
    /\ rpc = "Failed" /\ rio = "error" /\ result = ResetError
    /\ header # <<>> /\ Len(header) < HEADER_LEN

\* C16: a recv_frame call cancelled while suspended leaves the read cursor
\* where its reads took it: the bytes it consumed are not handed back and are
\* buffered nowhere, the cursor never moves backwards, and the next call
\* starts at that offset with an empty header and reads the stream from there.
C16_CancelKeepsCursor ==
    /\ [](rcursor + Len(pipe) = Len(wlog))
    /\ [](rpc = "Header" => header = SubSeq(wlog, rstart + 1, rstart + Len(header)))
    /\ [][/\ (InProgress /\ rpc' = "Cancelled")
               => (rcursor' = rcursor /\ pipe' = pipe /\ rlog' = rlog)
          /\ (rpc = "Cancelled" /\ rpc' = "Header")
               => (rstart' = rcursor /\ header' = <<>>)
          /\ rcursor' >= rcursor]_vars

\* the first call was cancelled in the middle of the first frame's body and
\* the second call reads its header from there
C16_Witness ==
    /\ frames # <<>>
    /\ calls = 2 /\ rlog = <<>> /\ rpc = "Header" /\ header # <<>>
    /\ rstart > HEADER_LEN /\ rstart < Len(encode(frames[1]))

\* C17: the cap check acts as one check against min(soft_cap, 8 MiB): a
\* header with the right magic is rejected with FrameTooLarge if and only if
\* its len is above min(soft_cap, 8 MiB); a len equal to that cap is accepted
\* and the body of len bytes is allocated and read; len = 0 is accepted under
\* every soft cap.
C17_CombinedCap ==
    (/\ rpc \in {"Body", "Closed", "Done", "Failed"}
     /\ Len(header) = HEADER_LEN /\ Take(header, 4) = MAGIC)
        => /\ result.msg = "nwd1 frame too large" <=> DeclaredLen(header) > EffectiveCap
           /\ DeclaredLen(header) <= EffectiveCap
                => (bodyAlloc = DeclaredLen(header) /\ rpc # "Closed")
           /\ DeclaredLen(header) > EffectiveCap => rpc = "Failed"
           /\ DeclaredLen(header) = 0 => result.msg # "nwd1 frame too large"

\* a len equal to the soft cap: the body read is under way
C17_Witness ==
    /\ rpc = "Body" /\ body # <<>>
    /\ soft_cap < MAX_FRAME_LEN_HARD /\ DeclaredLen(header) = soft_cap

\* C18: the first check to fail, in the order header complete, magic, cap,
\* body, decode, decides the outcome: without a complete header no later
\* check speaks; a wrong magic gives BadMagic whatever the len; with the
\* right magic a len above the cap gives FrameTooLarge whatever the stream
\* does after the header; then a short body gives the transport failure, and
\* only a complete body gives the codec's verdict.
C18_CheckOrder ==
    Terminal
        => /\ Len(header) < HEADER_LEN
                => (result.kind # "InvalidData" /\ result.tag # "Some")
           /\ (Len(header) = HEADER_LEN /\ Take(header, 4) # MAGIC)
                => result.msg = "nwd1 bad magic"
           /\ (/\ Len(header) = HEADER_LEN /\ Take(header, 4) = MAGIC
               /\ DeclaredLen(header) > EffectiveCap)
                => result.msg = "nwd1 frame too large"
           /\ (/\ Len(header) = HEADER_LEN /\ Take(header, 4) = MAGIC
               /\ DeclaredLen(header) <= EffectiveCap
               /\ Len(body) < DeclaredLen(header))
                => TransportFailure(result)
           /\ (/\ Len(header) = HEADER_LEN /\ Take(header, 4) = MAGIC
               /\ DeclaredLen(header) <= EffectiveCap
               /\ Len(body) = DeclaredLen(header))
                => (result.tag = "Some" \/ result.msg = "nwd1 decode error")

\* a wrong magic with a len above the cap, on a stream closed right after
\* the header
C18_Witness ==
    /\ rpc = "Failed" /\ result.msg = "nwd1 bad magic"
    /\ DeclaredLen(header) > EffectiveCap
    /\ wclosed /\ pipe = <<>> /\ rcursor = Len(wlog)

\* the wire bytes of the frames after the first k
RECURSIVE WireFrom(_)
WireFrom(k) ==
    IF k >= Len(frames) THEN <<>> ELSE encode(frames[k + 1]) \o WireFrom(k + 1)

\* every byte the stream carries from its start to its close
Carried == wlog \o data \o WireFrom(sidx) \o raw

\* what a call that starts on the bytes s, followed by the close, returns
\* under the cap c, and how many bytes it consumes, when s arrives in one piece
\* (the end of the stream inside the header gives Ok(None) after any number
\* of header bytes: lib.rs:47-48)
Whole(s, c) ==
    IF Len(s) < HEADER_LEN
    THEN [result |-> OkNone, consumed |-> Len(s)]
    ELSE IF Take(s, 4) # MAGIC
    THEN [result |-> Err("InvalidData", "nwd1 bad magic"), consumed |-> HEADER_LEN]
    ELSE IF DeclaredLen(s) > Min(c, MAX_FRAME_LEN_HARD)
    THEN [result |-> Err("InvalidData", "nwd1 frame too large"), consumed |-> HEADER_LEN]
    ELSE IF Len(s) - HEADER_LEN < DeclaredLen(s)
    THEN [result |-> EofError, consumed |-> Len(s)]
    ELSE [result |-> IF decode(Take(s, HEADER_LEN + DeclaredLen(s))).ok
                     THEN OkSome(decode(Take(s, HEADER_LEN + DeclaredLen(s))).frame)
                     ELSE Err("InvalidData", "nwd1 decode error"),
          consumed |-> HEADER_LEN + DeclaredLen(s)]

\* C19: the value a recv_frame call returns and the bytes it consumes are a
\* function of the bytes the stream carries from the call's start, of where
\* the stream closes and of soft_cap: however the transport cut the delivery
\* into reads, the call ends as it would had the bytes come in one piece, so
\* two runs that differ only in the chunking end alike.
C19_ChunkingIndependent ==
    (Terminal /\ rio # "error")
        => /\ result = Whole(Drop(Carried, rstart), soft_cap).result
           /\ Consumed = Whole(Drop(Carried, rstart), soft_cap).consumed
           /\ rpc = RpcOfResult

\* a frame received whole although the pipe never held more than PipeCap of
\* its bytes at a time
C19_Witness ==
    /\ rpc = "Done" /\ calls = 2 /\ Len(rlog) = 2
    /\ rlog[1].tag = "Some" /\ result = OkSome(frames[2])
    /\ Consumed > PipeCap

====
